---- MODULE Spec2Model ----
(***************************************************************************)
(* Model of burst_search/datasource.py (class DataSource) and              *)
(* burst_search/search.py (class Trigger, function basic).                 *)
(*                                                                         *)
(* Conventions                                                             *)
(*  - Python indices are 0-based, TLA+ sequences 1-based: the element with *)
(*    Python index i sits at position i + 1.                               *)
(*  - Python floats are modelled as exact rationals <<num, den>> in lowest *)
(*    terms with den > 0 (times) or as integers in a fixed unit            *)
(*    (frequencies are counted in units of 0.5, scores in units of 0.1).   *)
(*  - A call's outcome is [kind |-> "return", value |-> v] or              *)
(*    [kind |-> "raise", exc |-> name, args |-> tuple].                    *)
(*  - An unset passband (None) is the empty tuple; both are false in       *)
(*    `if self._passband:`.                                                *)
(***************************************************************************)
EXTENDS Integers, Sequences, FiniteSets, TLC

VARIABLES
    self_scrunch,         \* DataSource._scrunch
    self_passband,        \* DataSource._passband : <<>> or <<lo, hi>>
    self_nfreq,           \* DataSource._nfreq (native channel count)
    self_delta_f,         \* DataSource._delta_f
    self_freq0,           \* DataSource._freq0
    self_delta_t_native,  \* DataSource._delta_t_native
    nblocks_left,         \* backend: native blocks not yet yielded
    nblocks_fetched,      \* backend: native blocks yielded so far
    ncalls,               \* number of block-fetch calls made so far
    call,                 \* name of the last operation called
    args,                 \* inputs of the last operation
    ret                   \* outcome of the last operation

vars == <<self_scrunch, self_passband, self_nfreq, self_delta_f, self_freq0,
          self_delta_t_native, nblocks_left, nblocks_fetched, ncalls,
          call, args, ret>>

config == <<self_scrunch, self_passband, self_nfreq, self_delta_f, self_freq0,
            self_delta_t_native>>

----------------------------------------------------------------------------
\* Bounds of the model.

MaxScrunch == 4
MaxNFreq == 4
MaxNTime == 8
MaxBlocks == 3
MaxCalls == MaxBlocks + 1
MaxBand == 6
MaxDeltaF == 2
MaxFreq0 == 1

----------------------------------------------------------------------------
\* Call outcomes.

Return(v) == [kind |-> "return", value |-> v]

Raise(e, a) == [kind |-> "raise", exc |-> e, args |-> a]

NoCall == [kind |-> "none"]

----------------------------------------------------------------------------
\* Float arithmetic, modelled exactly.

Abs(x) == IF x < 0 THEN -x ELSE x

RECURSIVE GCD(_, _)
GCD(a, b) == IF b = 0 THEN a ELSE GCD(b, a % b)

Rat(n, d) ==
    LET s == IF d < 0 THEN -1 ELSE 1
        g == GCD(Abs(n), Abs(d))
    IN  <<(s * n) \div g, (s * d) \div g>>

RatAdd(x, y) == Rat(x[1] * y[2] + y[1] * x[2], x[2] * y[2])

RatSub(x, y) == Rat(x[1] * y[2] - y[1] * x[2], x[2] * y[2])

RatMul(x, y) == Rat(x[1] * y[1], x[2] * y[2])

RatDiv(x, y) == Rat(x[1] * y[2], x[2] * y[1])

\* float -> int conversion of astype: truncation toward zero.
Trunc(x) == IF x[1] >= 0 THEN x[1] \div x[2] ELSE -((-x[1]) \div x[2])

----------------------------------------------------------------------------
\* numpy arrays: [dtype, shape, a].  An "int" array holds integers, a
\* "float" array holds rationals.

FromInt(dtype, v) == IF dtype = "int" THEN v ELSE Rat(v, 1)

ToFloat(dtype, v) == IF dtype = "int" THEN Rat(v, 1) ELSE v

\* Conversion of one float value to dtype.
Cast(x, dtype) == IF dtype = "int" THEN Trunc(x) ELSE x

\* ndarray.astype(dtype) of a 2D float array.
astype(arr, dtype) ==
    [dtype |-> dtype, shape |-> arr.shape,
     a |-> [c \in 1..arr.shape[1] |-> [g \in 1..arr.shape[2] |-> Cast(arr.a[c][g], dtype)]]]

\* Slicing that takes the stop index as inclusive.
ApplySlice_inclusive(s, sl) ==
    IF sl = <<>> THEN s
    ELSE LET stop == IF sl[2] + 1 > Len(s) THEN Len(s) ELSE sl[2] + 1
         IN  SubSeq(s, sl[1] + 1, stop)

\* a[sl] for a slice along the first axis; <<>> is np.s_[:].
ApplySlice(s, sl) ==
    IF sl = <<>> THEN s
    ELSE LET stop == IF sl[2] > Len(s) THEN Len(s) ELSE sl[2]
         IN  SubSeq(s, sl[1] + 1, stop)

SliceRows(arr, sl) ==
    LET rows == ApplySlice(arr.a, sl)
    IN  [dtype |-> arr.dtype, shape |-> <<Len(rows), arr.shape[2]>>, a |-> rows]

\* The reshape grouping every (ntime // scrunch)-th sample together.
Reshape_interleaved(arr, k) ==
    LET nt == arr.shape[2] \div k
    IN  [dtype |-> arr.dtype, shape |-> <<arr.shape[1], nt, k>>,
         a |-> [c \in 1..arr.shape[1] |->
                  [g \in 1..nt |-> [m \in 1..k |-> arr.a[c][(m - 1) * nt + g]]]]]

\* data.shape = (nfreq, ntime // scrunch, scrunch) on a C-ordered array.
Reshape(arr, k) ==
    LET nt == arr.shape[2] \div k
    IN  [dtype |-> arr.dtype, shape |-> <<arr.shape[1], nt, k>>,
         a |-> [c \in 1..arr.shape[1] |->
                  [g \in 1..nt |-> [m \in 1..k |-> arr.a[c][(g - 1) * k + m]]]]]

RECURSIVE SumSeq(_)
SumSeq(s) == IF Len(s) = 0 THEN Rat(0, 1) ELSE RatAdd(Head(s), SumSeq(Tail(s)))

\* np.mean(arr, -1): float mean along the last axis of a 3D array.
MeanLastAxis(arr) ==
    [dtype |-> "float", shape |-> <<arr.shape[1], arr.shape[2]>>,
     a |-> [c \in 1..arr.shape[1] |->
              [g \in 1..arr.shape[2] |->
                 RatDiv(SumSeq([m \in 1..arr.shape[3] |-> ToFloat(arr.dtype, arr.a[c][g][m])]),
                        Rat(arr.shape[3], 1))]]]

----------------------------------------------------------------------------
\* The backend (a DataSource subclass), from the contract of
\* get_next_block_native, nblocks_left and nblocks_fetched.

\* Sample values of the native blocks the backend may hold.
Pattern(index, c, j) == ((5 * index + 3 * c + 2 * j * j + j) % 9) - 4

\* The block at position index of the source, n samples long.
NativeBlock(index, n, dtype) ==
    [t0   |-> Rat(5 * index + 1, 2),
     data |-> [dtype |-> dtype, shape |-> <<self_nfreq, n>>,
               a |-> [c \in 1..self_nfreq |->
                        [j \in 1..n |-> FromInt(dtype, Pattern(index, c, j))]]]]

Dtypes == {"int", "float"}

\* Outcome of one native fetch when blk is the next block of the source.
get_next_block_native(blk) ==
    IF nblocks_left = 0
    THEN [ret |-> Raise("StopIteration", <<>>), native |-> Raise("StopIteration", <<>>),
          fetched |-> nblocks_fetched, left |-> nblocks_left]
    ELSE [ret |-> Return([index |-> nblocks_fetched, t0 |-> blk.t0, data |-> blk.data]),
          native |-> Return([index |-> nblocks_fetched, t0 |-> blk.t0, data |-> blk.data]),
          fetched |-> nblocks_fetched + 1, left |-> nblocks_left - 1]

----------------------------------------------------------------------------
\* class DataSource

\* delta_t without the scrunch factor.
delta_t_unscrunched == Rat(self_delta_t_native, 1)

delta_t == RatMul(Rat(self_delta_t_native, 1), Rat(self_scrunch, 1))

delta_f == self_delta_f

arange(n) == [i \in 1..n |-> i - 1]

\* np.nonzero of a 1D boolean array: the indices of its true entries,
\* ascending.
nonzero(mask) == SelectSeq(arange(Len(mask)), LAMBDA i : mask[i + 1])

\* The resolver with a passband closed at both ends.
freq_native_and_slice_closed ==
    LET freq_native == [i \in 1..self_nfreq |-> arange(self_nfreq)[i] * delta_f + self_freq0]
    IN  IF Len(self_passband) > 0
        THEN LET mask == [i \in 1..self_nfreq |->
                            /\ freq_native[i] >= self_passband[1]
                            /\ freq_native[i] <= self_passband[2]]
                 inband == nonzero(mask)
             IN  IF Len(inband) = 0
                 THEN Raise("IndexError", <<>>)
                 ELSE Return([freq_native |-> freq_native,
                              f_slice |-> <<inband[1], inband[Len(inband)] + 1>>])
        ELSE Return([freq_native |-> freq_native, f_slice |-> <<>>])

\* The resolver with a range that runs one index past the last in-band one.
freq_native_and_slice_overrun ==
    LET freq_native == [i \in 1..self_nfreq |-> arange(self_nfreq)[i] * delta_f + self_freq0]
    IN  IF Len(self_passband) > 0
        THEN LET mask == [i \in 1..self_nfreq |->
                            /\ freq_native[i] > self_passband[1]
                            /\ freq_native[i] < self_passband[2]]
                 inband == nonzero(mask)
             IN  IF Len(inband) = 0
                 THEN Raise("IndexError", <<>>)
                 ELSE Return([freq_native |-> freq_native,
                              f_slice |-> <<inband[1], inband[Len(inband)] + 2>>])
        ELSE Return([freq_native |-> freq_native, f_slice |-> <<>>])

\* The resolver answering an empty passband with an empty range.
freq_native_and_slice_empty_range ==
    LET freq_native == [i \in 1..self_nfreq |-> arange(self_nfreq)[i] * delta_f + self_freq0]
    IN  IF Len(self_passband) > 0
        THEN LET mask == [i \in 1..self_nfreq |->
                            /\ freq_native[i] > self_passband[1]
                            /\ freq_native[i] < self_passband[2]]
                 inband == nonzero(mask)
             IN  IF Len(inband) = 0
                 THEN Return([freq_native |-> freq_native, f_slice |-> <<0, 0>>])
                 ELSE Return([freq_native |-> freq_native,
                              f_slice |-> <<inband[1], inband[Len(inband)] + 1>>])
        ELSE Return([freq_native |-> freq_native, f_slice |-> <<>>])

freq_native_and_slice ==
    LET freq_native == [i \in 1..self_nfreq |-> arange(self_nfreq)[i] * delta_f + self_freq0]
    IN  IF Len(self_passband) > 0
        THEN LET mask == [i \in 1..self_nfreq |->
                            /\ freq_native[i] > self_passband[1]
                            /\ freq_native[i] < self_passband[2]]
                 inband == nonzero(mask)
             IN  IF Len(inband) = 0
                 THEN Raise("IndexError", <<>>)
                 ELSE Return([freq_native |-> freq_native,
                              f_slice |-> <<inband[1], inband[Len(inband)] + 1>>])
        ELSE Return([freq_native |-> freq_native, f_slice |-> <<>>])

freq ==
    LET r == freq_native_and_slice
    IN  IF r.kind = "raise" THEN r
        ELSE Return(ApplySlice(r.value.freq_native, r.value.f_slice))

freq0 ==
    LET r == freq
    IN  IF r.kind = "raise" THEN r
        ELSE IF Len(r.value) = 0 THEN Raise("IndexError", <<>>)
        ELSE Return(r.value[1])

nfreq ==
    LET r == freq
    IN  IF r.kind = "raise" THEN r ELSE Return(Len(r.value))

\* The time scrunch of get_next_block, applied to the sliced native block.
decimate_truncating(t0, data_native) ==
    LET scrunch == self_scrunch
        ntime == data_native.shape[2] - (data_native.shape[2] % scrunch)
        cut == [data_native EXCEPT !.shape = <<data_native.shape[1], ntime>>]
    IN  Return([t0 |-> RatAdd(t0, RatDiv(RatMul(delta_t,
                                  RatSub(Rat(1, 1), RatDiv(Rat(1, 1), Rat(scrunch, 1)))),
                                  Rat(2, 1))),
                data |-> astype(MeanLastAxis(Reshape(cut, scrunch)), cut.dtype)])

decimate(t0, data_native) ==
    LET scrunch == self_scrunch
        ntime_native == data_native.shape[2]
    IN  IF ntime_native % self_scrunch # 0
        THEN Raise("NotImplementedError", <<scrunch, ntime_native>>)
        ELSE Return([t0 |-> RatAdd(t0, RatDiv(RatMul(delta_t,
                                       RatSub(Rat(1, 1), RatDiv(Rat(1, 1), Rat(scrunch, 1)))),
                                       Rat(2, 1))),
                     data |-> astype(MeanLastAxis(Reshape(data_native, scrunch)),
                                     data_native.dtype)])

\* get_next_block resolving the passband before it asks for a block.
get_next_block_resolve_first(blk) ==
    LET scrunch == self_scrunch
        fs == freq_native_and_slice
        nat == get_next_block_native(blk)
    IN  IF fs.kind = "raise"
        THEN [ret |-> fs, native |-> fs, fetched |-> nblocks_fetched, left |-> nblocks_left]
        ELSE IF nat.ret.kind = "raise" THEN nat
        ELSE LET data_native == SliceRows(nat.ret.value.data, fs.value.f_slice)
             IN  IF scrunch = 1
                 THEN [nat EXCEPT !.ret = Return([t0 |-> nat.ret.value.t0, data |-> data_native])]
                 ELSE [nat EXCEPT !.ret = decimate(nat.ret.value.t0, data_native)]

\* get_next_block giving the block back to the source when processing fails.
get_next_block_rollback(blk) ==
    LET scrunch == self_scrunch
        nat == get_next_block_native(blk)
        fs == freq_native_and_slice
        failed == [nat EXCEPT !.fetched = nblocks_fetched, !.left = nblocks_left]
    IN  IF nat.ret.kind = "raise" THEN nat
        ELSE IF fs.kind = "raise" THEN [failed EXCEPT !.ret = fs]
        ELSE LET data_native == SliceRows(nat.ret.value.data, fs.value.f_slice)
                 out == decimate(nat.ret.value.t0, data_native)
             IN  IF scrunch = 1
                 THEN [nat EXCEPT !.ret = Return([t0 |-> nat.ret.value.t0, data |-> data_native])]
                 ELSE IF out.kind = "raise" THEN [failed EXCEPT !.ret = out]
                 ELSE [nat EXCEPT !.ret = out]

get_next_block(blk) ==
    LET scrunch == self_scrunch
        nat == get_next_block_native(blk)
        fs == freq_native_and_slice
    IN  IF nat.ret.kind = "raise" THEN nat
        ELSE IF fs.kind = "raise" THEN [nat EXCEPT !.ret = fs]
        ELSE LET data_native == SliceRows(nat.ret.value.data, fs.value.f_slice)
             IN  IF scrunch = 1
                 THEN [nat EXCEPT !.ret = Return([t0 |-> nat.ret.value.t0, data |-> data_native])]
                 ELSE [nat EXCEPT !.ret = decimate(nat.ret.value.t0, data_native)]

----------------------------------------------------------------------------
\* burst_search/search.py

snr_threshold_default == 50

\* Trigger.__init__
Trigger(data, centre_, snr) ==
    [data |-> data, dm_ind |-> centre_[1], time_ind |-> centre_[2], snr |-> snr]

\* Trigger.centre
centre(trigger) == <<trigger.dm_ind, trigger.time_ind>>

\* basic creating a Trigger at the threshold too.
basic_inclusive(data, snr_threshold, peak) ==
    LET snr == peak[1]
        sample == peak[2]
    IN  IF snr >= snr_threshold
        THEN Append(<<>>, Trigger(data, sample, snr))
        ELSE <<>>

\* basic(data, snr_threshold), peak being what _search.sievers_find_peak(data)
\* returned: <<snr, sample, duration>>.
basic(data, snr_threshold, peak) ==
    LET snr == peak[1]
        sample == peak[2]
    IN  IF snr > snr_threshold
        THEN Append(<<>>, Trigger(data, sample, snr))
        ELSE <<>>

----------------------------------------------------------------------------
\* Construction: DataSource.__init__ plus the geometry a subclass supplies.

Passbands(vals) == {<<>>} \cup {<<lo, hi>> : lo \in vals, hi \in vals}

Idle ==
    /\ ncalls = 0
    /\ call = "__init__"
    /\ args = NoCall
    /\ ret = NoCall

Init ==
    /\ self_scrunch \in 1..MaxScrunch
    /\ self_passband \in {<<>>, <<1, 5>>, <<5, 1>>}
    /\ self_nfreq \in {MaxNFreq - 2, MaxNFreq}
    /\ self_delta_f = 2
    /\ self_freq0 = 0
    /\ self_delta_t_native \in {1, 3}
    /\ nblocks_left \in 0..MaxBlocks
    /\ nblocks_fetched = 0
    /\ Idle

\* A source attached only for its frequency geometry.
InitFreq ==
    /\ self_scrunch = 1
    /\ self_passband \in Passbands(-MaxBand..MaxBand)
    /\ self_nfreq \in 1..MaxNFreq
    /\ self_delta_f \in -MaxDeltaF..MaxDeltaF
    /\ self_freq0 \in 0..MaxFreq0
    /\ self_delta_t_native = 1
    /\ nblocks_left = 0
    /\ nblocks_fetched = 0
    /\ Idle

\* No source at all: only the search module is exercised.
InitSearch ==
    /\ self_scrunch = 1
    /\ self_passband = <<>>
    /\ self_nfreq = 1
    /\ self_delta_f = 1
    /\ self_freq0 = 0
    /\ self_delta_t_native = 1
    /\ nblocks_left = 0
    /\ nblocks_fetched = 0
    /\ Idle

----------------------------------------------------------------------------
\* Operations.

GetNextBlock ==
    /\ ncalls < MaxCalls
    /\ \E n \in 1..MaxNTime, dtype \in Dtypes :
         \E r \in {get_next_block(NativeBlock(nblocks_fetched, n, dtype))} :
             /\ ret' = r.ret
             /\ args' = r.native
             /\ nblocks_fetched' = r.fetched
             /\ nblocks_left' = r.left
    /\ ncalls' = ncalls + 1
    /\ call' = "get_next_block"
    /\ UNCHANGED config

GetNextBlockNative ==
    /\ ncalls < MaxCalls
    /\ \E n \in 1..MaxNTime, dtype \in Dtypes :
         \E r \in {get_next_block_native(NativeBlock(nblocks_fetched, n, dtype))} :
             /\ ret' = r.ret
             /\ args' = r.native
             /\ nblocks_fetched' = r.fetched
             /\ nblocks_left' = r.left
    /\ ncalls' = ncalls + 1
    /\ call' = "get_next_block_native"
    /\ UNCHANGED config

ReadProperty(name, value) ==
    /\ call' = name
    /\ args' = NoCall
    /\ ret' = value
    /\ UNCHANGED <<config, nblocks_left, nblocks_fetched, ncalls>>

ReadFreq == ReadProperty("freq", freq)

ReadFreq0 == ReadProperty("freq0", freq0)

ReadNfreq == ReadProperty("nfreq", nfreq)

ReadDeltaT == ReadProperty("delta_t", Return(delta_t))

FreqNativeAndSlice == ReadProperty("_freq_native_and_slice", freq_native_and_slice)

SearchData == {<<<<1, 2>>, <<3, 4>>>>, <<<<0, 0>>, <<0, 9>>>>}

Peaks ==
    {<<snr, sample, 3>> :
        snr \in {0, 49, 50, 51, 72, 79, 80, 81},
        sample \in {<<120, 4050>>, <<0, 0>>, <<7, 2>>}}

Basic ==
    /\ \E data \in SearchData, peak \in Peaks, snr_threshold \in {snr_threshold_default, 72, 80} :
         /\ args' = [data |-> data, snr_threshold |-> snr_threshold, peak |-> peak]
         /\ ret' = Return(basic(data, snr_threshold, peak))
    /\ call' = "basic"
    /\ UNCHANGED <<config, nblocks_left, nblocks_fetched, ncalls>>

Next ==
    \/ GetNextBlock
    \/ GetNextBlockNative
    \/ ReadFreq
    \/ ReadFreq0
    \/ ReadNfreq
    \/ ReadDeltaT

Spec == Init /\ [][Next]_vars

NextFreq ==
    \/ FreqNativeAndSlice
    \/ ReadFreq
    \/ ReadFreq0
    \/ ReadNfreq

SpecFreq == InitFreq /\ [][NextFreq]_vars

NextSearch == Basic

SpecSearch == InitSearch /\ [][NextSearch]_vars

----------------------------------------------------------------------------
\* Vocabulary of the properties, stated on the configuration and on the
\* native block without the resolver or the decimation code.

SetMin(S) == CHOOSE x \in S : \A y \in S : x <= y

SetMax(S) == CHOOSE x \in S : \A y \in S : x >= y

FreqOf(i) == self_freq0 + i * self_delta_f

PassbandSet == Len(self_passband) > 0

\* Native channel indices whose frequency lies strictly inside the passband.
Qualifying ==
    {i \in 0..(self_nfreq - 1) :
        self_passband[1] < FreqOf(i) /\ FreqOf(i) < self_passband[2]}

BandEmpty == PassbandSet /\ Qualifying = {}

\* First native channel delivered and number of channels delivered.
FirstChannel == IF PassbandSet THEN SetMin(Qualifying) ELSE 0

ChannelCount ==
    IF PassbandSet THEN SetMax(Qualifying) - SetMin(Qualifying) + 1 ELSE self_nfreq

\* The last operation was get_next_block and the backend handed it a block.
BlockCall == call = "get_next_block" /\ args.kind = "return"

NativeData == args.value.data

NativeT0 == args.value.t0

NativeLen == args.value.data.shape[2]

\* Native sample [c, i] (0-based) as an integer.
NativeSample(c, i) ==
    IF NativeData.dtype = "int" THEN NativeData.a[c + 1][i + 1]
    ELSE NativeData.a[c + 1][i + 1][1]

RECURSIVE NativeSum(_, _, _)
NativeSum(c, lo, hi) ==
    IF lo > hi THEN 0 ELSE NativeSample(c, lo) + NativeSum(c, lo + 1, hi)

\* v is total / k in the block's dtype: the exact quotient for floats, the
\* quotient rounded toward zero for integers.
IsMean(v, total, k) ==
    IF NativeData.dtype = "int"
    THEN /\ Abs(v) * k <= Abs(total)
         /\ Abs(total) < (Abs(v) + 1) * k
         /\ v * total >= 0
    ELSE v[1] * k = total * v[2]

----------------------------------------------------------------------------
\* C1: whenever get_next_block processes a native block whose time length n
\* is divisible by the scrunch factor k (and the passband, if set, selects a
\* channel), it returns data of the input's dtype with the selected channels
\* and n / k time samples, and output sample [c, j] is the mean of native
\* samples [c, j*k] .. [c, (j+1)*k - 1] of the same channel, converted back
\* to the input's dtype.
C1_ScrunchIsGroupMean ==
    (BlockCall /\ ~BandEmpty /\ NativeLen % self_scrunch = 0) =>
        /\ ret.kind = "return"
        /\ ret.value.data.dtype = NativeData.dtype
        /\ ret.value.data.shape = <<ChannelCount, NativeLen \div self_scrunch>>
        /\ Len(ret.value.data.a) = ChannelCount
        /\ \A c \in 0..(ChannelCount - 1) :
             /\ Len(ret.value.data.a[c + 1]) = NativeLen \div self_scrunch
             /\ \A j \in 0..((NativeLen \div self_scrunch) - 1) :
                  IsMean(ret.value.data.a[c + 1][j + 1],
                         NativeSum(FirstChannel + c, j * self_scrunch,
                                   (j + 1) * self_scrunch - 1),
                         self_scrunch)

\* An integer block of two groups of three, sliced by a passband, in which
\* some group has a negative sum that three does not divide.
C1_Witness ==
    /\ BlockCall
    /\ ret.kind = "return"
    /\ self_scrunch = 3
    /\ NativeLen = 6
    /\ NativeData.dtype = "int"
    /\ PassbandSet
    /\ FirstChannel > 0
    /\ \E c \in 0..(ChannelCount - 1), j \in 0..1 :
         LET total == NativeSum(FirstChannel + c, 3 * j, 3 * j + 2)
         IN  total < 0 /\ total % 3 # 0

\* C2: for every successful get_next_block call with scrunch factor k > 1 the
\* returned t0 is the native t0 plus nativeDeltaT * (k - 1) / 2; for k = 1 it
\* is the native t0.
C2_TimeAlignment ==
    (BlockCall /\ ret.kind = "return") =>
        IF self_scrunch > 1
        THEN ret.value.t0[1] * (2 * NativeT0[2]) =
                ret.value.t0[2] * (2 * NativeT0[1]
                    + NativeT0[2] * self_delta_t_native * (self_scrunch - 1))
        ELSE ret.value.t0 = NativeT0

C2_Witness ==
    /\ BlockCall
    /\ ret.kind = "return"
    /\ self_scrunch = 4
    /\ self_delta_t_native = 3
    /\ NativeT0 = <<11, 2>>
    /\ ret.value.t0 = <<10, 1>>

\* C3: with scrunch factor 1 and a passband that (if set) selects a channel,
\* get_next_block returns the native t0 and the selected rows of the native
\* data unchanged, for every native time length.
C3_ScrunchOneIsSliceOnly ==
    (BlockCall /\ ~BandEmpty /\ self_scrunch = 1) =>
        /\ ret.kind = "return"
        /\ ret.value.t0 = NativeT0
        /\ ret.value.data.dtype = NativeData.dtype
        /\ ret.value.data.shape = <<ChannelCount, NativeLen>>
        /\ ret.value.data.a =
              [c \in 1..ChannelCount |-> NativeData.a[FirstChannel + c]]

C3_Witness ==
    /\ BlockCall
    /\ self_scrunch = 1
    /\ PassbandSet
    /\ ret.kind = "return"
    /\ NativeLen = 3
    /\ ret.value.data.shape[1] < self_nfreq
    /\ ret.value.data.a[1] = NativeData.a[2]

\* C4: with a passband (lo, hi) that some channel satisfies, the resolver
\* returns the native axis freq0 + i * deltaF and the range from the first to
\* the last index with lo < f < hi; the channels at both ends of the range lie
\* strictly inside the passband; for 4 channels, deltaF = 1.0, freq0 = 0.0 and
\* passband (0.5, 2.5) the range is indices 1..2 and freq has length 2.
C4_FirstToLastStrict ==
    (PassbandSet /\ Qualifying # {}) =>
        /\ call = "_freq_native_and_slice" =>
             /\ ret.kind = "return"
             /\ ret.value.freq_native = [i \in 1..self_nfreq |-> FreqOf(i - 1)]
             /\ ret.value.f_slice = <<SetMin(Qualifying), SetMax(Qualifying) + 1>>
             /\ \A e \in {ret.value.f_slice[1], ret.value.f_slice[2] - 1} :
                  /\ FreqOf(e) # self_passband[1]
                  /\ FreqOf(e) # self_passband[2]
                  /\ e \in Qualifying
             /\ (self_nfreq = 4 /\ self_delta_f = 2 /\ self_freq0 = 0
                    /\ self_passband = <<1, 5>>) => ret.value.f_slice = <<1, 3>>
        /\ call = "freq" =>
             /\ ret.kind = "return"
             /\ ret.value = [c \in 1..ChannelCount |-> FreqOf(FirstChannel + c - 1)]
             /\ (self_nfreq = 4 /\ self_delta_f = 2 /\ self_freq0 = 0
                    /\ self_passband = <<1, 5>>) => ret.value = <<2, 4>>

\* The scenario of the claim.
C4_Witness ==
    /\ call = "_freq_native_and_slice"
    /\ self_nfreq = 4
    /\ self_delta_f = 2
    /\ self_freq0 = 0
    /\ self_passband = <<1, 5>>
    /\ ret = Return([freq_native |-> <<0, 2, 4, 6>>, f_slice |-> <<1, 3>>])

\* C6 as stated: whenever the scrunch factor k > 1 does not divide the native
\* block's time length n, get_next_block raises the divisibility error
\* carrying (k, n).
C6_AsStated ==
    (BlockCall /\ self_scrunch > 1 /\ NativeLen % self_scrunch # 0) =>
        ret = Raise("NotImplementedError", <<self_scrunch, NativeLen>>)

\* C6 amended: when the passband (if set) selects at least one channel and
\* the scrunch factor k > 1 does not divide the native block's time length n,
\* get_next_block raises the divisibility error carrying (k, n) and returns
\* no block; n = 8 with k = 4 gives exactly 2 output samples and n = 8 with
\* k = 3 fails carrying (3, 8).
C6_IndivisibleRaises ==
    (BlockCall /\ ~BandEmpty) =>
        /\ (self_scrunch > 1 /\ NativeLen % self_scrunch # 0) =>
              ret = Raise("NotImplementedError", <<self_scrunch, NativeLen>>)
        /\ (self_scrunch = 4 /\ NativeLen = 8) =>
              ret.kind = "return" /\ ret.value.data.shape[2] = 2
        /\ (self_scrunch = 3 /\ NativeLen = 8) =>
              ret = Raise("NotImplementedError", <<3, 8>>)

C6_Witness ==
    /\ BlockCall
    /\ PassbandSet
    /\ ~BandEmpty
    /\ self_scrunch = 3
    /\ NativeLen = 8
    /\ ret = Raise("NotImplementedError", <<3, 8>>)

\* C7: when a passband is set and no native channel lies strictly inside it,
\* the freq, freq0 and nfreq properties, and get_next_block once it has a
\* native block, raise the empty-band error (numpy's IndexError); none of
\* them returns.
C7_EmptyBandRaises ==
    BandEmpty =>
        /\ call \in {"freq", "freq0", "nfreq"} => ret = Raise("IndexError", <<>>)
        /\ BlockCall => ret = Raise("IndexError", <<>>)
        /\ call = "get_next_block" => ret.kind = "raise"

C7_Witness ==
    /\ BandEmpty
    /\ BlockCall
    /\ self_scrunch = 1
    /\ ret = Raise("IndexError", <<>>)

\* Number of native blocks the source held at construction.
TotalBlocks == nblocks_fetched + nblocks_left

FetchCall == call \in {"get_next_block", "get_next_block_native"}

\* The settings under which get_next_block can turn a block of n samples
\* into a result.
Deliverable(n) == ~BandEmpty /\ (self_scrunch = 1 \/ n % self_scrunch = 0)

\* C5 as stated: each of the first N fetch calls returns a result and call
\* N + 1 raises StopIteration, whatever the scrunch and passband settings.
C5_AsStated ==
    FetchCall =>
        /\ ncalls <= TotalBlocks => ret.kind = "return"
        /\ ncalls = TotalBlocks + 1 => ret = Raise("StopIteration", <<>>)

\* C5 amended: for a source holding exactly N native blocks, each of the
\* first N fetch calls consumes one native block; a get_next_block call among
\* them returns a result exactly when the passband (if set) selects a channel
\* and the scrunch factor is 1 or divides the block's time length, and raises
\* the empty-band or the divisibility error otherwise; call N + 1 raises
\* StopIteration whatever the scrunch and passband settings.
C5_Exhaustion ==
    FetchCall =>
        /\ ncalls <= TotalBlocks =>
              /\ args.kind = "return"
              /\ nblocks_fetched = ncalls
              /\ call = "get_next_block_native" => ret.kind = "return"
              /\ call = "get_next_block" =>
                    /\ ret.kind = "return" <=> Deliverable(NativeLen)
                    /\ ret.kind = "raise" =>
                          ret.exc \in {"IndexError", "NotImplementedError"}
        /\ ncalls = TotalBlocks + 1 =>
              /\ ret = Raise("StopIteration", <<>>)
              /\ nblocks_fetched = TotalBlocks
              /\ nblocks_left = 0

\* The fourth call on a source of three blocks, with a scrunch factor and an
\* empty passband configured.
C5_Witness ==
    /\ call = "get_next_block"
    /\ TotalBlocks = 3
    /\ ncalls = 4
    /\ self_scrunch = 3
    /\ BandEmpty
    /\ ret = Raise("StopIteration", <<>>)

\* C8: basic returns one Trigger, centred on the sample the search function
\* returned and holding the searched data, when the score is strictly above
\* the threshold, and no Trigger otherwise (also at equality); a score of 7.2
\* at (120, 4050) gives one Trigger at threshold 5.0 and none at 8.0.
C8_TriggerAboveThreshold ==
    call = "basic" =>
        /\ ret.kind = "return"
        /\ IF args.peak[1] > args.snr_threshold
           THEN /\ Len(ret.value) = 1
                /\ centre(ret.value[1]) = args.peak[2]
                /\ ret.value[1].data = args.data
           ELSE ret.value = <<>>
        /\ args.peak[1] = args.snr_threshold => Len(ret.value) = 0
        /\ (args.peak = <<72, <<120, 4050>>, 3>> /\ args.snr_threshold = 50) =>
              Len(ret.value) = 1 /\ centre(ret.value[1]) = <<120, 4050>>
        /\ (args.peak = <<72, <<120, 4050>>, 3>> /\ args.snr_threshold = 80) =>
              Len(ret.value) = 0

C8_Witness ==
    /\ call = "basic"
    /\ args.peak = <<72, <<120, 4050>>, 3>>
    /\ args.snr_threshold = snr_threshold_default
    /\ Len(ret.value) = 1
    /\ centre(ret.value[1]) = <<120, 4050>>

\* C9: a get_next_block call that fails with the divisibility or the
\* empty-band error has consumed a native block: the fetched-block count is
\* one higher after the call than before it, and any fetch that follows
\* receives the block after the one whose processing failed.
C9_FailedCallConsumesBlock ==
    [][ (ncalls' = ncalls + 1) =>
          /\ (/\ call' = "get_next_block"
              /\ ret'.kind = "raise"
              /\ ret'.exc \in {"NotImplementedError", "IndexError"}) =>
                 /\ nblocks_fetched' = nblocks_fetched + 1
                 /\ args'.kind = "return"
                 /\ args'.value.index = nblocks_fetched
          /\ (/\ call = "get_next_block"
              /\ ret.kind = "raise"
              /\ ret.exc \in {"NotImplementedError", "IndexError"}
              /\ args'.kind = "return") =>
                 args'.value.index = args.value.index + 1 ]_vars

\* A second call that failed on the divisibility check after taking block 1.
C9_Witness ==
    /\ call = "get_next_block"
    /\ ncalls = 2
    /\ ret.kind = "raise"
    /\ ret.exc = "NotImplementedError"
    /\ args.kind = "return"
    /\ args.value.index = 1
    /\ nblocks_fetched = 2

\* C10: for nonzero deltaF and any passband, every channel of the resolved
\* range satisfies lo < f < hi, and the resolved freq axis is as long as the
\* number of channels that satisfy it.
C10_RangeHoldsOnlyQualifying ==
    (PassbandSet /\ self_delta_f # 0) =>
        /\ (call = "_freq_native_and_slice" /\ ret.kind = "return") =>
              \A i \in ret.value.f_slice[1]..(ret.value.f_slice[2] - 1) : i \in Qualifying
        /\ (call = "freq" /\ ret.kind = "return") =>
              /\ \A c \in 1..Len(ret.value) :
                    self_passband[1] < ret.value[c] /\ ret.value[c] < self_passband[2]
              /\ Len(ret.value) = Cardinality(Qualifying)
        /\ (call = "nfreq" /\ ret.kind = "return") =>
              ret.value = Cardinality(Qualifying)

\* A descending axis of which a passband keeps an inner run of two channels.
C10_Witness ==
    /\ call = "freq"
    /\ self_delta_f < 0
    /\ PassbandSet
    /\ ret.kind = "return"
    /\ Len(ret.value) = 2
    /\ self_nfreq = 4
    /\ ret.value[1] # FreqOf(0)
    /\ ret.value[2] # FreqOf(3)

====
